---- MODULE Spec2Model ----
(***************************************************************************)
(* AirPodsDesktop, Source/Core/AirPods.cpp: the advertisement filter and   *)
(* the left/right state reconciliation of Core::AirPods::Details::         *)
(* StateManager, with its three 10 s timers.                               *)
(*                                                                         *)
(* std::optional<T> is modelled as a sequence: <<>> is std::nullopt and    *)
(* <<x>> holds x.  Helper::Sides<T> is a record with fields left, right.   *)
(***************************************************************************)
EXTENDS Integers, Sequences, FiniteSets, TLC

\* ------------------------------------------------------------ bounds
\* Number of readings Clock::now() gives in a behaviour (one per accepted packet).
MaxNow == 3
\* Ticks of the timers' clock in one 10 s interval.
TimerTicks == 2

\* ------------------------------------------------------------ constants
\* "if (rssiDiff > 50)"
RssiDiffMax == 50
\* "if (leftBatteryDiff > 1 || rightBatteryDiff > 1 || caseBatteryDiff > 1)"
BatteryDiffMax == 1
\* "battery.Value() * 10"
BatteryScale == 10

\* ------------------------------------------------------------ optional, Sides
NullOpt == <<>>
Some(x) == <<x>>
HasValue(o) == o # <<>>
Value(o) == o[1]

Side == {"Left", "Right"}
Get(sides, side) == IF side = "Left" THEN sides.left ELSE sides.right
Put(sides, side, v) == IF side = "Left" THEN [sides EXCEPT !.left = v] ELSE [sides EXCEPT !.right = v]
Another(side) == IF side = "Left" THEN "Right" ELSE "Left"

Abs(x) == IF x < 0 THEN -x ELSE x
\* the value an int has after conversion to int16_t
ToInt16(x) == ((x + 32768) % 65536) - 32768

\* ------------------------------------------------------------ input domain
Model == {"Unknown", "AirPods_1", "AirPods_Pro"}
BatteryNA == [available |-> FALSE, value |-> 0]
Battery(v) == [available |-> TRUE, value |-> v]
\* BLE signal strengths in dBm (the transport hands them over as int16)
RssiValues == {-100, -90, -40}
RssiMinValues == {-100, -90}

\* Bluetooth::AdvertisementWatcher::ReceivedData of a recognized packet, with the
\* fields AppleCP::AirPods decodes from its manufacturer data.  "flags" gives every
\* status bit of the packet the same value, which tells packets apart in a merge.
Data(address, rssi, model, side, leftBattery, rightBattery, caseBattery, flags) ==
    [address |-> address, rssi |-> rssi, model |-> model, side |-> side,
     leftBattery |-> leftBattery, leftCharging |-> flags, leftInEar |-> flags,
     rightBattery |-> rightBattery, rightCharging |-> flags, rightInEar |-> flags,
     caseBattery |-> caseBattery, caseCharging |-> flags,
     bothPodsInCase |-> flags, lidOpened |-> flags]

\* the packets of Spec: both sides, weak and strong, with and without the left battery
ReceivedData ==
    {Data(1, rssi, "AirPods_1", side, leftBattery, Battery(7), BatteryNA, flags) :
        rssi \in {-100, -40}, side \in Side, leftBattery \in {BatteryNA, Battery(7)},
        flags \in BOOLEAN}

\* the broadcasters of SpecFilter, <<address, model, left battery>>: ours, ours
\* after an address rotation (same battery, one step less, none), another device
Devices ==
    {<<1, "AirPods_1", Battery(7)>>,
     <<2, "AirPods_1", Battery(7)>>, <<2, "AirPods_1", Battery(6)>>, <<2, "AirPods_1", BatteryNA>>,
     <<2, "AirPods_Pro", Battery(7)>>, <<2, "AirPods_Pro", Battery(6)>>}

\* the packets of SpecFilter: what the filter reads (address, RSSI, model, a battery)
FilterData ==
    {Data(d[1], rssi, d[2], side, d[3], Battery(7), BatteryNA, FALSE) :
        d \in Devices, rssi \in RssiValues, side \in Side}

\* the packets of SpecMerge: what the merge reads (each group available or not);
\* the right pod's packets have their status bits set, the left pod's have not
MergeData ==
    {Data(1, -40, IF known THEN (IF side = "Right" THEN "AirPods_Pro" ELSE "AirPods_1") ELSE "Unknown",
          side, leftBattery, rightBattery, caseBattery, side = "Right") :
        known \in BOOLEAN, side \in Side,
        leftBattery \in {BatteryNA, Battery(7)}, rightBattery \in {BatteryNA, Battery(7)},
        caseBattery \in {BatteryNA, Battery(7)}}

\* a packet whose manufacturer data is not a valid AirPods message: nothing decoded
UndesiredData == {[address |-> 3, rssi |-> -40]}

\* the packets of SpecManager, all from the left pod of one device: case closed and
\* pods out of the ears; lid open with both pods in the case; lid open with a pod
\* taken out and put in the ear; both pods in the ears
ManagerData ==
    {[Data(1, -40, "AirPods_1", "Left", Battery(7), Battery(7), Battery(7), FALSE)
        EXCEPT !.lidOpened = f[1], !.bothPodsInCase = f[2],
               !.leftInEar = f[3], !.rightInEar = f[4]] :
        f \in {<<FALSE, FALSE, FALSE, FALSE>>, <<TRUE, TRUE, FALSE, FALSE>>,
               <<TRUE, FALSE, TRUE, FALSE>>, <<FALSE, FALSE, TRUE, TRUE>>}}

\* Bluetooth::DeviceState
DeviceState == {"Connected", "Disconnected", "Paired"}
\* the addresses handed to OnBoundDeviceAddressChanged, 0 to unbind
AddressValues == {0, 1}
\* what Bluetooth::DeviceManager::FindDevice returns: no device, or a device with
\* its name and its connection state
FoundDevices ==
    {NullOpt, Some([name |-> "Bluetooth Headset", state |-> "Connected"]),
     Some([name |-> "AirPods - Find My", state |-> "Disconnected"])}

\* ------------------------------------------------------------ Advertisement
\* Advertisement::IsDesiredAdv: Apple manufacturer data that is a valid AirPods message
IsDesiredAdv(data) == "model" \in DOMAIN data

ScaleBattery(b) == IF b.available THEN Battery(b.value * BatteryScale) ELSE b

\* Advertisement::Advertisement: the decoded AdvState, batteries scaled by 10
Advertisement(data) ==
    [address |-> data.address,
     rssi    |-> data.rssi,
     state   |-> [model |-> data.model,
                  side  |-> data.side,
                  pods  |-> [left  |-> [battery    |-> ScaleBattery(data.leftBattery),
                                        isCharging |-> data.leftCharging,
                                        isInEar    |-> data.leftInEar],
                             right |-> [battery    |-> ScaleBattery(data.rightBattery),
                                        isCharging |-> data.rightCharging,
                                        isInEar    |-> data.rightInEar]],
                  caseBox |-> [battery          |-> ScaleBattery(data.caseBattery),
                               isCharging       |-> data.caseCharging,
                               isBothPodsInCase |-> data.bothPodsInCase,
                               isLidOpened      |-> data.lidOpened]]]

GetRssi(a) == a.rssi
GetAddress(a) == a.address
GetAdvState(a) == a.state

\* a value-initialized Advertisement::AdvState
DefaultPod == [battery |-> BatteryNA, isCharging |-> FALSE, isInEar |-> FALSE]
DefaultCase == [battery |-> BatteryNA, isCharging |-> FALSE,
                isBothPodsInCase |-> FALSE, isLidOpened |-> FALSE]
DefaultAdvState ==
    [model |-> "Unknown", side |-> "Left",
     pods |-> [left |-> DefaultPod, right |-> DefaultPod], caseBox |-> DefaultCase]

\* ------------------------------------------------------------ StateManager, pure parts
\* "leftBatteryDiff = std::abs(new - old)" when both are available, else 0
BatteryDiff(newBattery, oldBattery) ==
    IF newBattery.available /\ oldBattery.available
    THEN Abs(newBattery.value - oldBattery.value)
    ELSE 0

\* "int16_t rssiDiff = std::abs(advRssi - last.GetRssi())"
RssiDiff_Signed(advRssi, lastRssi) == ToInt16(advRssi - lastRssi)

RssiDiff(advRssi, lastRssi) == ToInt16(Abs(advRssi - lastRssi))

\* the model check with "advState.model != lastAdvState.model" never true
ModelDiffers_Never(advState, lastAdvState) == FALSE

\* "if (advState.model != lastAdvState.model)"
ModelDiffers(advState, lastAdvState) == advState.model # lastAdvState.model

\* the floor check with "advRssi <= _rssiMin"
BelowLimit_Inclusive(advRssi, floor) == advRssi <= floor

\* "if (advRssi < _rssiMin)"
BelowLimit(advRssi, floor) == advRssi < floor

\* the checks made when the side's cached packet has another address: the reason
\* logged for the first one that fails, "" when all pass
AddressChanged(advIn, lastAdv) ==
    LET advState == GetAdvState(advIn)
        lastAdvState == GetAdvState(lastAdv)
        leftBatteryDiff == BatteryDiff(advState.pods.left.battery, lastAdvState.pods.left.battery)
        rightBatteryDiff == BatteryDiff(advState.pods.right.battery, lastAdvState.pods.right.battery)
        caseBatteryDiff == BatteryDiff(advState.caseBox.battery, lastAdvState.caseBox.battery)
    IN  IF ModelDiffers(advState, lastAdvState) THEN "model"
        ELSE IF leftBatteryDiff > BatteryDiffMax \/ rightBatteryDiff > BatteryDiffMax
                \/ caseBatteryDiff > BatteryDiffMax THEN "BatteryDiff"
        ELSE IF RssiDiff(GetRssi(advIn), GetRssi(lastAdv)) > RssiDiffMax
             THEN "Current side rssiDiff"
        ELSE ""

\* IsPossibleDesiredAdv with the side's RSSI distance checked for every cached
\* packet of the side, whatever its address
RejectReason_SameSideAlways(advIn, advs, floor) ==
    LET advRssi == GetRssi(advIn)
        side == GetAdvState(advIn).side
        lastAdv == Get(advs, side)
        lastAnotherAdv == Get(advs, Another(side))
        changed == IF HasValue(lastAdv) /\ GetAddress(Value(lastAdv).first) # GetAddress(advIn)
                   THEN AddressChanged(advIn, Value(lastAdv).first) ELSE ""
    IN  IF BelowLimit(advRssi, floor) THEN "RSSI is less than the limit"
        ELSE IF changed # "" THEN changed
        ELSE IF HasValue(lastAdv)
                /\ RssiDiff(advRssi, GetRssi(Value(lastAdv).first)) > RssiDiffMax
             THEN "Current side rssiDiff"
        ELSE IF HasValue(lastAnotherAdv)
                /\ RssiDiff(advRssi, GetRssi(Value(lastAnotherAdv).first)) > RssiDiffMax
             THEN "Another side rssiDiff"
        ELSE ""

\* StateManager::IsPossibleDesiredAdv, reading _adv and _rssiMin: the reason logged
\* with "IsPossibleDesiredAdv returns false", "" when it returns true
RejectReason(advIn, advs, floor) ==
    LET advRssi == GetRssi(advIn)
        side == GetAdvState(advIn).side
        lastAdv == Get(advs, side)
        lastAnotherAdv == Get(advs, Another(side))
        changed == IF HasValue(lastAdv) /\ GetAddress(Value(lastAdv).first) # GetAddress(advIn)
                   THEN AddressChanged(advIn, Value(lastAdv).first) ELSE ""
    IN  IF BelowLimit(advRssi, floor) THEN "RSSI is less than the limit"
        ELSE IF changed # "" THEN changed
        ELSE IF HasValue(lastAnotherAdv)
                /\ RssiDiff(advRssi, GetRssi(Value(lastAnotherAdv).first)) > RssiDiffMax
             THEN "Another side rssiDiff"
        ELSE ""

\* StateManager::IsPossibleDesiredAdv: its return value
IsPossibleDesiredAdv(advIn, advs, floor) == RejectReason(advIn, advs, floor) = ""

\* StateManager::UpdateAdv, the cache part: _adv.<side> = (adv, Clock::now())
UpdateAdv(advIn, advs, clock) ==
    Put(advs, GetAdvState(advIn).side, Some([first |-> advIn, second |-> clock]))

\* the local cachedAdvState of UpdateState: (AdvState, Timestamp) per side,
\* value-initialized where the side's cache is empty
CachedAdvState(advs) ==
    LET One(o) == IF HasValue(o)
                  THEN [first |-> GetAdvState(Value(o).first), second |-> Value(o).second]
                  ELSE [first |-> DefaultAdvState, second |-> 0]
    IN  [left |-> One(advs.left), right |-> One(advs.right)]

\* PICK_SIDE with the earlier cache taken when both are available
PickSide_Earlier(availableLeft, availableRight, cached) ==
    IF availableLeft /\ availableRight
    THEN IF cached.left.second < cached.right.second
         THEN cached.left.first ELSE cached.right.first
    ELSE IF availableLeft THEN cached.left.first ELSE cached.right.first

\* the macro PICK_SIDE: the AdvState a field group is taken from, given
\* "available" = the group's condition on the left and on the right AdvState
PickSide(availableLeft, availableRight, cached) ==
    IF availableLeft /\ availableRight
    THEN IF cached.left.second > cached.right.second
         THEN cached.left.first ELSE cached.right.first
    ELSE IF availableLeft THEN cached.left.first ELSE cached.right.first

ModelAvailable(s) == s.model # "Unknown"
LeftAvailable(s) == s.pods.left.battery.available
RightAvailable(s) == s.pods.right.battery.available
CaseAvailable(s) == s.caseBox.battery.available

\* StateManager::UpdateState, the merge: newState
NewState(advs) ==
    LET cached == CachedAdvState(advs)
        l == cached.left.first
        r == cached.right.first
    IN  [model   |-> PickSide(ModelAvailable(l), ModelAvailable(r), cached).model,
         pods    |-> [left  |-> PickSide(LeftAvailable(l), LeftAvailable(r), cached).pods.left,
                      right |-> PickSide(RightAvailable(l), RightAvailable(r), cached).pods.right],
         caseBox |-> PickSide(CaseAvailable(l), CaseAvailable(r), cached).caseBox,
         displayName |-> ""]

\* UpdateEvent with oldState left empty
UpdateEvent_NoPrevious(newState, oldCached) ==
    IF Some(newState) = oldCached THEN NullOpt
    ELSE Some([oldState |-> NullOpt, newState |-> newState])

\* UpdateEvent without "if (newState == _cachedState) return std::nullopt"
UpdateEvent_NoCompare(newState, oldCached) ==
    Some([oldState |-> oldCached, newState |-> newState])

\* StateManager::UpdateState, the comparison: the returned optional<UpdateEvent>
UpdateEvent(newState, oldCached) ==
    IF Some(newState) = oldCached THEN NullOpt
    ELSE Some([oldState |-> oldCached, newState |-> newState])

\* StateManager::UpdateState, the assignment: _cachedState after the call
UpdateState(newState, oldCached) ==
    IF Some(newState) = oldCached THEN oldCached ELSE Some(newState)

EmptyAdv == [left |-> NullOpt, right |-> NullOpt]

\* ResetAll that never calls DisconnectSafely
ResetAllCalls_Never(cached) == <<>>

\* ResetAll without "if (_cachedState.has_value())"
ResetAllCalls_Always(cached) == <<"DisconnectSafely">>

\* StateManager::ResetAll: the call made on the main window
ResetAllCalls(cached) == IF HasValue(cached) THEN <<"DisconnectSafely">> ELSE <<>>

\* ------------------------------------------------------------ state
VARIABLES
    adv,              \* StateManager::_adv: per side, optional (Advertisement, Timestamp)
    cachedState,      \* StateManager::_cachedState: optional State
    rssiMin,          \* StateManager::_rssiMin
    lostTimer,        \* _lostTimer: ticks left until it fires
    stateResetTimer,  \* _stateResetTimer.left/.right: ticks left until each fires
    now,              \* the last reading of Clock::now()
    last,             \* the last operation: its result, its log and its outgoing calls
    hist,             \* history: ticks since a side's last accepted packet (capped); since
                      \* the last accepted packet, the firings of the lost timer and those
                      \* of them that called DisconnectSafely (both capped); the current
                      \* State of the last UpdateEvent returned since the last full reset
    boundDevice,          \* Manager::_boundDevice.has_value()
    deviceConnected,      \* Manager::_deviceConnected
    automaticEarDetection,\* Manager::_automaticEarDetection
    deviceName,           \* Manager::_deviceName
    pending,          \* Manager::OnAdvertisementReceived between the return of
                      \* _stateMgr.OnAdvReceived and OnStateChanged: optUpdateEvent
    out               \* the last operation of the Manager: its return value and its calls

\* the members of the Manager and what is seen of its last operation
mgrVars == <<boundDevice, deviceConnected, automaticEarDetection, deviceName, pending, out>>

vars == <<adv, cachedState, rssiMin, lostTimer, stateResetTimer, now, last, hist,
          boundDevice, deviceConnected, automaticEarDetection, deviceName, pending, out>>

\* what a Manager operation is seen to do: its return value ("" for void, or while
\* it has not returned), the line it logged at Info or Error level, and the
\* calls it made on the main window and the media transport, in order; the State
\* handed to UpdateStateSafely, and whether DisconnectSafely was called for the
\* reset of that State before it was handed over
Out(op, ret, log, calls, shown, overtaken) ==
    [op |-> op, ret |-> ret, log |-> log, calls |-> calls, shown |-> shown,
     overtaken |-> overtaken]

NoCase == [repeat |-> FALSE, sameAddressFar |-> FALSE]
Last(op, accepted, log, event, calls, case) ==
    [op |-> op, accepted |-> accepted, log |-> log, event |-> event, calls |-> calls,
     case |-> case]

\* StateManager::StateManager: empty caches, the three timers started
Init ==
    /\ adv = EmptyAdv
    /\ cachedState = NullOpt
    /\ rssiMin \in RssiMinValues
    /\ lostTimer = TimerTicks
    /\ stateResetTimer = [left |-> TimerTicks, right |-> TimerTicks]
    /\ now = 0
    /\ last = Last("StateManager", FALSE, "", NullOpt, <<>>, NoCase)
    /\ hist = [quiet |-> [left |-> 0, right |-> 0], lostFired |-> 0, lostNotified |-> 0,
               emitted |-> NullOpt]
    /\ boundDevice = FALSE
    /\ deviceConnected = FALSE
    /\ automaticEarDetection = FALSE
    /\ deviceName = ""
    /\ pending = NullOpt
    /\ out = Out("Manager", "", "", <<>>, NullOpt, FALSE)

\* ------------------------------------------------------------ operations
\* what the call finds: is it the packet accepted just before, with an event;
\* does the side's cache hold the same address at an RSSI more than 50 away
Case(data) ==
    LET lastAdv == Get(adv, data.side)
    IN  [repeat |-> /\ last.op = "OnAdvReceived" /\ HasValue(last.event)
                    /\ lastAdv = Some([first |-> Advertisement(data), second |-> now]),
         sameAddressFar |-> /\ HasValue(lastAdv)
                            /\ Value(lastAdv).first.address = data.address
                            /\ Abs(data.rssi - Value(lastAdv).first.rssi) > RssiDiffMax]

\* the current State of the last UpdateEvent returned, after a call returned `event`
Emitted(event, emitted) == IF HasValue(event) THEN Some(Value(event).newState) ELSE emitted

\* UpdateAdv with both sides' expiry timers reset
ResetTimer_Both(timers, side) == [left |-> TimerTicks, right |-> TimerTicks]

\* UpdateAdv without the Reset() of the side's expiry timer
ResetTimer_Running(timers, side) == timers

\* StateManager::UpdateAdv, the timer part: _stateResetTimer.<side>.Reset()
ResetTimer(timers, side) == Put(timers, side, TimerTicks)

\* OnAdvReceived with the timers of UpdateAdv started before the filter is asked
OnAdvReceived_TimersFirst(data) ==
    LET advIn == Advertisement(data)
        side == GetAdvState(advIn).side
        log == RejectReason(advIn, adv, rssiMin)
    IN  IF ~IsPossibleDesiredAdv(advIn, adv, rssiMin)
        THEN /\ lostTimer' = TimerTicks
             /\ stateResetTimer' = ResetTimer(stateResetTimer, side)
             /\ last' = Last("OnAdvReceived", FALSE, log, NullOpt, <<>>, Case(data))
             /\ UNCHANGED <<adv, cachedState, rssiMin, now, hist>>
        ELSE /\ now < MaxNow
             /\ now' = now + 1
             /\ lostTimer' = TimerTicks
             /\ stateResetTimer' = ResetTimer(stateResetTimer, side)
             /\ adv' = UpdateAdv(advIn, adv, now')
             /\ cachedState' = UpdateState(NewState(adv'), cachedState)
             /\ last' = Last("OnAdvReceived", TRUE, log,
                             UpdateEvent(NewState(adv'), cachedState), <<>>, Case(data))
             /\ hist' = [quiet |-> Put(hist.quiet, side, 0), lostFired |-> 0, lostNotified |-> 0,
                         emitted |-> Emitted(UpdateEvent(NewState(adv'), cachedState),
                                             hist.emitted)]
             /\ UNCHANGED rssiMin

\* StateManager::OnAdvReceived
OnAdvReceived(data) ==
    LET advIn == Advertisement(data)
        side == GetAdvState(advIn).side
        log == RejectReason(advIn, adv, rssiMin)
    IN  IF ~IsPossibleDesiredAdv(advIn, adv, rssiMin)
        THEN /\ last' = Last("OnAdvReceived", FALSE, log, NullOpt, <<>>, Case(data))
             /\ UNCHANGED <<adv, cachedState, rssiMin, lostTimer, stateResetTimer, now, hist>>
        ELSE /\ now < MaxNow
             /\ now' = now + 1
             /\ lostTimer' = TimerTicks
             /\ stateResetTimer' = ResetTimer(stateResetTimer, side)
             /\ adv' = UpdateAdv(advIn, adv, now')
             /\ cachedState' = UpdateState(NewState(adv'), cachedState)
             /\ last' = Last("OnAdvReceived", TRUE, log,
                             UpdateEvent(NewState(adv'), cachedState), <<>>, Case(data))
             /\ hist' = [quiet |-> Put(hist.quiet, side, 0), lostFired |-> 0, lostNotified |-> 0,
                         emitted |-> Emitted(UpdateEvent(NewState(adv'), cachedState),
                                             hist.emitted)]
             /\ UNCHANGED rssiMin

\* Disconnect with a ResetAll that clears the canonical State and keeps the caches
Disconnect_CanonicalOnly ==
    /\ cachedState' = NullOpt
    /\ last' = Last("Disconnect", FALSE, "StateManager: Disconnect.", NullOpt,
                    ResetAllCalls(cachedState), NoCase)
    /\ hist' = [hist EXCEPT !.emitted = NullOpt]
    /\ UNCHANGED <<adv, rssiMin, lostTimer, stateResetTimer, now>>

\* StateManager::Disconnect
Disconnect ==
    /\ adv' = EmptyAdv
    /\ cachedState' = NullOpt
    /\ last' = Last("Disconnect", FALSE, "StateManager: Disconnect.", NullOpt,
                    ResetAllCalls(cachedState), NoCase)
    /\ hist' = [hist EXCEPT !.emitted = NullOpt]
    /\ UNCHANGED <<rssiMin, lostTimer, stateResetTimer, now>>

\* Manager::OnRssiMinChanged -> StateManager::OnRssiMinChanged
OnRssiMinChanged(value) ==
    /\ rssiMin' = value
    /\ last' = Last("OnRssiMinChanged", FALSE, "", NullOpt, <<>>, NoCase)
    /\ UNCHANGED <<adv, cachedState, lostTimer, stateResetTimer, now, hist>>

\* the callback of _lostTimer: DoLost
DoLost ==
    /\ lostTimer = 0
    /\ lostTimer' = TimerTicks
    /\ adv' = EmptyAdv
    /\ cachedState' = NullOpt
    /\ last' = Last("DoLost", FALSE,
                    IF HasValue(cachedState) THEN "StateManager: Device is lost." ELSE "",
                    NullOpt, ResetAllCalls(cachedState), NoCase)
    /\ hist' = [hist EXCEPT !.lostFired = IF @ < 2 THEN @ + 1 ELSE @,
                            !.lostNotified = IF ResetAllCalls(cachedState) # <<>> /\ @ < 2
                                             THEN @ + 1 ELSE @,
                            !.emitted = NullOpt]
    /\ UNCHANGED <<rssiMin, stateResetTimer, now>>

\* LOG(Info, "StateManager: DoStateReset called. Side: {}", Helper::ToString(side))
DoStateResetLog(side) == IF side = "Left" THEN "StateManager: DoStateReset called. Side: Left"
                         ELSE "StateManager: DoStateReset called. Side: Right"

\* DoStateReset clearing both sides' caches
DoStateReset_All(side) ==
    /\ Get(stateResetTimer, side) = 0
    /\ stateResetTimer' = Put(stateResetTimer, side, TimerTicks)
    /\ adv' = EmptyAdv
    /\ last' = Last("DoStateReset", FALSE,
                    IF HasValue(Get(adv, side)) THEN DoStateResetLog(side) ELSE "",
                    NullOpt, <<>>, NoCase)
    /\ UNCHANGED <<cachedState, rssiMin, lostTimer, now, hist>>

\* DoStateReset followed by UpdateState()
DoStateReset_Update(side) ==
    /\ Get(stateResetTimer, side) = 0
    /\ stateResetTimer' = Put(stateResetTimer, side, TimerTicks)
    /\ adv' = Put(adv, side, NullOpt)
    /\ cachedState' = UpdateState(NewState(adv'), cachedState)
    /\ last' = Last("DoStateReset", FALSE,
                    IF HasValue(Get(adv, side)) THEN DoStateResetLog(side) ELSE "",
                    UpdateEvent(NewState(adv'), cachedState), <<>>, NoCase)
    /\ UNCHANGED <<rssiMin, lostTimer, now, hist>>

\* the callback of _stateResetTimer.left / .right: DoStateReset(side)
DoStateReset(side) ==
    /\ Get(stateResetTimer, side) = 0
    /\ stateResetTimer' = Put(stateResetTimer, side, TimerTicks)
    /\ adv' = Put(adv, side, NullOpt)
    /\ last' = Last("DoStateReset", FALSE,
                    IF HasValue(Get(adv, side)) THEN DoStateResetLog(side) ELSE "",
                    NullOpt, <<>>, NoCase)
    /\ UNCHANGED <<cachedState, rssiMin, lostTimer, now, hist>>

\* time passes: one tick of every timer; a timer that is due fires before the next tick
Tick ==
    /\ lostTimer > 0 /\ stateResetTimer.left > 0 /\ stateResetTimer.right > 0
    /\ lostTimer' = lostTimer - 1
    /\ stateResetTimer' = [left |-> stateResetTimer.left - 1, right |-> stateResetTimer.right - 1]
    /\ hist' = [hist EXCEPT !.quiet = [left  |-> IF @.left < TimerTicks THEN @.left + 1 ELSE @.left,
                                       right |-> IF @.right < TimerTicks THEN @.right + 1 ELSE @.right]]
    /\ UNCHANGED <<adv, cachedState, rssiMin, now, last>>


\* ------------------------------------------------------------ Manager, pure parts
\* name.find("Bluetooth") != std::string::npos ? std::string{} : name
BoundName(name) == IF name = "Bluetooth Headset" THEN "" ELSE name

\* QString::remove(" - Find My")
RemoveFindMy(name) == IF name = "AirPods - Find My" THEN "AirPods" ELSE name

\* Helper::ToString(newState.model)
ModelToString(model) == model

\* the lid taken as open whether or not both pods are in the case
LidOpened_LidOnly(state) == state.caseBox.isLidOpened

\* "isLidOpened && isBothPodsInCase" of a State
LidOpened(state) == state.caseBox.isLidOpened /\ state.caseBox.isBothPodsInCase

\* "pods.left.isInEar && pods.right.isInEar" of a State
BothInEar(state) == state.pods.left.isInEar /\ state.pods.right.isInEar

\* Manager::OnLidOpened
OnLidOpened(opened) == IF opened THEN <<"ShowSafely">> ELSE <<"HideSafely">>

\* OnBothInEar without "if (!_automaticEarDetection) return"
OnBothInEar_Always(isBothInEar, enabled) ==
    IF isBothInEar THEN <<"Play">> ELSE <<"Pause">>

\* Manager::OnBothInEar
OnBothInEar(isBothInEar, enabled) ==
    IF ~enabled THEN <<>>
    ELSE IF isBothInEar THEN <<"Play">> ELSE <<"Pause">>

\* Manager::OnStateChanged, "Lid opened": the calls made
LidCalls(event) ==
    LET newLidOpened == LidOpened(event.newState)
        lidStateSwitched == IF ~HasValue(event.oldState) THEN newLidOpened
                            ELSE LidOpened(Value(event.oldState)) # newLidOpened
    IN  IF lidStateSwitched THEN OnLidOpened(newLidOpened) ELSE <<>>

\* Manager::OnStateChanged, "Both in ear": the calls made
EarCalls(event, enabled) ==
    IF HasValue(event.oldState)
       /\ BothInEar(Value(event.oldState)) # BothInEar(event.newState)
    THEN OnBothInEar(BothInEar(event.newState), enabled)
    ELSE <<>>

\* Manager::OnStateChanged: every call made, in order
StateChangedCalls(event, enabled) ==
    <<"UpdateStateSafely">> \o LidCalls(event) \o EarCalls(event, enabled)

\* "bool newDeviceConnected = state == Bluetooth::DeviceState::Connected"
NewDeviceConnected(state) == state = "Connected"

\* doDisconnect never true
DoDisconnect_Never(connected, state) == FALSE

\* "bool doDisconnect = _deviceConnected && !newDeviceConnected"
DoDisconnect(connected, state) == connected /\ ~NewDeviceConnected(state)

\* ------------------------------------------------------------ Manager, operations
\* the variables of the StateManager and of what is seen of it
stateMgrVars == <<adv, cachedState, rssiMin, lostTimer, stateResetTimer, now, last, hist>>

\* OnAdvertisementReceived without "if (!_deviceConnected) return false"
OnAdvertisementReceived_NoGate(data) ==
    /\ pending = NullOpt
    /\ IF ~IsDesiredAdv(data)
       THEN /\ out' = Out("OnAdvertisementReceived", "false", "", <<>>, NullOpt, FALSE)
            /\ UNCHANGED <<stateMgrVars, pending>>
       ELSE /\ OnAdvReceived(data)
            /\ pending' = IF HasValue(last'.event)
                          THEN Some([event |-> Value(last'.event), overtaken |-> FALSE])
                          ELSE NullOpt
            /\ out' = IF HasValue(last'.event)
                      THEN Out("OnAdvertisementReceived", "", "", <<>>, NullOpt, FALSE)
                      ELSE Out("OnAdvertisementReceived", "true", "", <<>>, NullOpt, FALSE)
    /\ UNCHANGED <<boundDevice, deviceConnected, automaticEarDetection, deviceName>>

\* Manager::OnAdvertisementReceived up to the return of _stateMgr.OnAdvReceived;
\* Manager::_mutex is held from here to the end of OnStateChanged
OnAdvertisementReceived(data) ==
    /\ pending = NullOpt
    /\ IF ~IsDesiredAdv(data)
       THEN /\ out' = Out("OnAdvertisementReceived", "false", "", <<>>, NullOpt, FALSE)
            /\ UNCHANGED <<stateMgrVars, pending>>
       ELSE IF ~deviceConnected
       THEN /\ out' = Out("OnAdvertisementReceived", "false",
                          "AirPods advertisement received, but device disconnected.",
                          <<>>, NullOpt, FALSE)
            /\ UNCHANGED <<stateMgrVars, pending>>
       ELSE /\ OnAdvReceived(data)
            /\ pending' = IF HasValue(last'.event)
                          THEN Some([event |-> Value(last'.event), overtaken |-> FALSE])
                          ELSE NullOpt
            /\ out' = IF HasValue(last'.event)
                      THEN Out("OnAdvertisementReceived", "", "", <<>>, NullOpt, FALSE)
                      ELSE Out("OnAdvertisementReceived", "true", "", <<>>, NullOpt, FALSE)
    /\ UNCHANGED <<boundDevice, deviceConnected, automaticEarDetection, deviceName>>

\* Manager::OnStateChanged and the return of Manager::OnAdvertisementReceived
OnStateChanged ==
    /\ HasValue(pending)
    /\ LET updateEvent == Value(pending).event
           displayName == IF deviceName = "" THEN ModelToString(updateEvent.newState.model)
                          ELSE RemoveFindMy(deviceName)
       IN  /\ deviceName' = IF deviceName = "" THEN deviceName ELSE RemoveFindMy(deviceName)
           /\ out' = Out("OnAdvertisementReceived", "true", "",
                         StateChangedCalls(updateEvent, automaticEarDetection),
                         Some([updateEvent.newState EXCEPT !.displayName = displayName]),
                         Value(pending).overtaken)
    /\ pending' = NullOpt
    /\ UNCHANGED <<stateMgrVars, boundDevice, deviceConnected, automaticEarDetection>>

\* OnBoundDeviceAddressChanged returning on a failed lookup before anything is reset
OnBoundDeviceAddressChanged_LateReset(address, optDevice) ==
    /\ pending = NullOpt
    /\ IF address # 0 /\ ~HasValue(optDevice)
       THEN UNCHANGED <<stateMgrVars, boundDevice, deviceConnected, deviceName>>
       ELSE /\ Disconnect
            /\ IF address = 0
               THEN /\ boundDevice' = FALSE
                    /\ deviceConnected' = FALSE
                    /\ UNCHANGED deviceName
               ELSE /\ boundDevice' = TRUE
                    /\ deviceName' = BoundName(Value(optDevice).name)
                    /\ deviceConnected' = NewDeviceConnected(Value(optDevice).state)
    /\ out' = Out("OnBoundDeviceAddressChanged", "",
                  IF address = 0 THEN "Unbind device."
                  ELSE IF ~HasValue(optDevice) THEN "Find device by address failed."
                  ELSE "[OnBoundDeviceAddressChanged] bound _deviceName",
                  <<>>, NullOpt, FALSE)
    /\ UNCHANGED <<automaticEarDetection, pending>>

\* Manager::OnBoundDeviceAddressChanged; optDevice is what FindDevice returns
OnBoundDeviceAddressChanged(address, optDevice) ==
    /\ pending = NullOpt
    /\ Disconnect
    /\ IF address = 0 \/ ~HasValue(optDevice)
       THEN /\ boundDevice' = FALSE
            /\ deviceConnected' = FALSE
            /\ UNCHANGED deviceName
       ELSE /\ boundDevice' = TRUE
            /\ deviceName' = BoundName(Value(optDevice).name)
            /\ deviceConnected' = NewDeviceConnected(Value(optDevice).state)
    /\ out' = Out("OnBoundDeviceAddressChanged", "",
                  IF address = 0 THEN "Unbind device."
                  ELSE IF ~HasValue(optDevice) THEN "Find device by address failed."
                  ELSE "[OnBoundDeviceAddressChanged] bound _deviceName",
                  <<>>, NullOpt, FALSE)
    /\ UNCHANGED <<automaticEarDetection, pending>>

\* Manager::OnBoundDeviceConnectionStateChanged, the callback of the bound device
OnBoundDeviceConnectionStateChanged(state) ==
    /\ pending = NullOpt
    /\ boundDevice
    /\ deviceConnected' = NewDeviceConnected(state)
    /\ IF DoDisconnect(deviceConnected, state)
       THEN Disconnect
       ELSE UNCHANGED stateMgrVars
    /\ out' = Out("OnBoundDeviceConnectionStateChanged", "",
                  IF DoDisconnect(deviceConnected, state)
                  THEN "[OnBoundDeviceConnectionStateChanged] doDisconnect"
                  ELSE "The device we bound is updated.",
                  <<>>, NullOpt, FALSE)
    /\ UNCHANGED <<boundDevice, automaticEarDetection, deviceName, pending>>

\* Manager::OnAutomaticEarDetectionChanged
OnAutomaticEarDetectionChanged(enable) ==
    /\ pending = NullOpt
    /\ automaticEarDetection' = enable
    /\ out' = Out("OnAutomaticEarDetectionChanged", "", "", <<>>, NullOpt, FALSE)
    /\ UNCHANGED <<stateMgrVars, boundDevice, deviceConnected, deviceName, pending>>

\* the callback of _lostTimer, which locks StateManager::_mutex only: it also runs
\* while the Manager holds an UpdateEvent it has not delivered yet
LostTimer ==
    /\ DoLost
    /\ pending' = IF HasValue(pending) /\ ResetAllCalls(cachedState) # <<>>
                  THEN Some([Value(pending) EXCEPT !.overtaken = TRUE])
                  ELSE pending
    /\ UNCHANGED <<boundDevice, deviceConnected, automaticEarDetection, deviceName, out>>

\* ------------------------------------------------------------ specifications
\* the StateManager with its timers
Next ==
    \/ (\E data \in ReceivedData : OnAdvReceived(data)) /\ UNCHANGED mgrVars
    \/ Disconnect /\ UNCHANGED mgrVars
    \/ (\E value \in RssiMinValues : OnRssiMinChanged(value)) /\ UNCHANGED mgrVars
    \/ DoLost /\ UNCHANGED mgrVars
    \/ (\E side \in Side : DoStateReset(side)) /\ UNCHANGED mgrVars
    \/ Tick /\ UNCHANGED mgrVars

Spec == Init /\ [][Next]_vars

\* the filter on its whole input domain, all packets within one timer interval
NextFilter ==
    \/ (\E data \in FilterData : OnAdvReceived(data)) /\ UNCHANGED mgrVars
    \/ Disconnect /\ UNCHANGED mgrVars
    \/ (\E value \in RssiMinValues : OnRssiMinChanged(value)) /\ UNCHANGED mgrVars

SpecFilter == Init /\ [][NextFilter]_vars

\* the merge on its whole input domain, all packets within one timer interval
NextMerge ==
    \/ (\E data \in MergeData : OnAdvReceived(data)) /\ UNCHANGED mgrVars
    \/ Disconnect /\ UNCHANGED mgrVars

SpecMerge == Init /\ [][NextMerge]_vars

\* the Manager over the StateManager and its timers
NextManager ==
    \/ \E data \in ManagerData \cup UndesiredData : OnAdvertisementReceived(data)
    \/ OnStateChanged
    \/ \E address \in AddressValues :
          \E optDevice \in IF address = 0 THEN {NullOpt} ELSE FoundDevices :
              OnBoundDeviceAddressChanged(address, optDevice)
    \/ \E state \in DeviceState : OnBoundDeviceConnectionStateChanged(state)
    \/ \E enable \in BOOLEAN : OnAutomaticEarDetectionChanged(enable)
    \/ LostTimer
    \/ (\E side \in Side : DoStateReset(side)) /\ UNCHANGED mgrVars
    \/ Tick /\ UNCHANGED mgrVars

SpecManager == Init /\ [][NextManager]_vars

\* ------------------------------------------------------------ claims
\* the steps by what they are seen to do: a packet was accepted (only UpdateAdv
\* reads the clock); a packet was rejected (the call returned, no tick was made)
AcceptedStep == now' # now
RejectedStep == last'.op = "OnAdvReceived" /\ ~last'.accepted /\ last' # last

\* C1: a packet that was accepted and returned an UpdateEvent, submitted again
\* before any timer fires, Disconnect or a change of the RSSI floor, returns no event;
\* an UpdateEvent is returned only when the merged State differs from the canonical
\* one, so its previous State is never its current State, and the current State is
\* the canonical State the merge of the caches gave.
C1_DuplicateSuppressed ==
    /\ last.case.repeat => ~HasValue(last.event)
    /\ (last.op = "OnAdvReceived" /\ HasValue(last.event)) =>
           /\ last.accepted
           /\ Value(last.event).oldState # Some(Value(last.event).newState)
           /\ cachedState = Some(Value(last.event).newState)
           /\ Value(last.event).newState = NewState(adv)

\* C1 witness: the repeat of an accepted packet was accepted and returned no event
C1_Witness ==
    /\ last.op = "OnAdvReceived" /\ last.case.repeat /\ last.accepted
    /\ ~HasValue(last.event) /\ HasValue(cachedState)

\* C2: while a canonical State exists, 10 s without an accepted packet on either
\* side make the lost timer due; it fires only after such 10 s, clears both caches
\* and the canonical State, and calls DisconnectSafely exactly once if a canonical
\* State existed; every further firing with no packet accepted in between makes no
\* call, so at most one firing notifies between two accepted packets.
C2_LostOnce ==
    /\ [](/\ (HasValue(cachedState) /\ hist.quiet.left = TimerTicks
                /\ hist.quiet.right = TimerTicks) => lostTimer = 0
          /\ hist.lostNotified <= 1
          /\ hist.lostFired >= 1 => (adv = EmptyAdv /\ cachedState = NullOpt))
    /\ [][DoLost =>
            /\ hist.quiet.left = TimerTicks /\ hist.quiet.right = TimerTicks
            /\ adv' = EmptyAdv /\ cachedState' = NullOpt
            /\ HasValue(cachedState) => last'.calls = <<"DisconnectSafely">>
            /\ hist.lostFired >= 1 => last'.calls = <<>>]_vars

\* C2 witness: the lost timer fired twice with no packet between; the first firing
\* found a canonical State and notified, the second one made no call
C2_Witness ==
    /\ last.op = "DoLost" /\ hist.lostFired = 2 /\ hist.lostNotified = 1
    /\ last.calls = <<>> /\ now >= 1

\* C3 as stated: once a side's expiry has cleared its cache while the other side
\* is still active (its cache is there, its last packet less than 10 s old), the
\* canonical State is the merge of the remaining cache.
C3_Original ==
    \A side \in Side :
        (/\ last.op = "DoStateReset" /\ last.log = DoStateResetLog(side)
         /\ HasValue(Get(adv, Another(side)))
         /\ Get(hist.quiet, Another(side)) < TimerTicks)
            => cachedState = Some(NewState(adv))

\* C3 amended: a side's cache that got no packet for 10 s makes that side's timer
\* due; the timer fires only after such 10 s and clears only that side's cache: it
\* returns no UpdateEvent, makes no call and leaves the canonical State as it was,
\* also where it holds values of the expired cache.  The merge of the remaining
\* cache is taken by the next accepted packet, which returns one UpdateEvent if and
\* only if that merge differs from the canonical State.
C3_ExpiryKeepsCanonical ==
    /\ [](\A side \in Side :
            (HasValue(Get(adv, side)) /\ Get(hist.quiet, side) = TimerTicks)
                => Get(stateResetTimer, side) = 0)
    /\ [][\A side \in Side : DoStateReset(side) =>
            /\ Get(hist.quiet, side) = TimerTicks
            /\ Get(adv', side) = NullOpt
            /\ Get(adv', Another(side)) = Get(adv, Another(side))
            /\ cachedState' = cachedState
            /\ last'.event = NullOpt /\ last'.calls = <<>>]_vars
    /\ [][AcceptedStep =>
            /\ HasValue(last'.event) <=> Some(NewState(adv')) # cachedState
            /\ cachedState' = Some(NewState(adv'))]_vars

\* C3 witness: the left cache expired while the right cache is there, and the
\* canonical State is still the one merged from both, not the merge of what is left
C3_Witness ==
    /\ last.op = "DoStateReset" /\ last.log = DoStateResetLog("Left")
    /\ adv.left = NullOpt /\ HasValue(adv.right)
    /\ hist.quiet.left = TimerTicks /\ hist.quiet.right < TimerTicks
    /\ HasValue(cachedState) /\ cachedState # Some(NewState(adv))
    /\ Value(cachedState).pods.left.battery.available
    /\ ~NewState(adv).pods.left.battery.available

\* the packet cached for the side of `data`, and the one cached for the other side
Same(data) == Get(adv, data.side)
Other(data) == Get(adv, Another(data.side))
SameAddressCached(data) ==
    HasValue(Same(data)) /\ Value(Same(data)).first.address = data.address
OtherAddressCached(data) ==
    HasValue(Same(data)) /\ Value(Same(data)).first.address # data.address
SameWithin(data) ==
    Abs(data.rssi - Value(Same(data)).first.rssi) <= RssiDiffMax
OtherWithin(data) ==
    ~HasValue(Other(data)) \/ Abs(data.rssi - Value(Other(data)).first.rssi) <= RssiDiffMax
\* the 10% steps between two stored batteries, 0 when one of them is unavailable
Steps(newBattery, oldBattery) ==
    IF newBattery.available /\ oldBattery.available
    THEN Abs(newBattery.value - oldBattery.value) \div BatteryScale
    ELSE 0
\* every battery both packets report differs by at most one step
BatteriesWithinOneStep(data) ==
    LET new == Advertisement(data).state
        old == Value(Same(data)).first.state
    IN  /\ Steps(new.pods.left.battery, old.pods.left.battery) <= 1
        /\ Steps(new.pods.right.battery, old.pods.right.battery) <= 1
        /\ Steps(new.caseBox.battery, old.caseBox.battery) <= 1
\* the call left the caches and the canonical State alone and returned no event
NoOp == adv' = adv /\ cachedState' = cachedState /\ last'.event = NullOpt

\* the verdict of the filter on a packet in the current state
Accepts(data) == IsPossibleDesiredAdv(Advertisement(data), adv, rssiMin)

\* C4 as stated: a packet with the address and model of the side's cached packet,
\* batteries within one step and RSSI at or above the floor is accepted if and only
\* if its RSSI is within 50 of the cached packet's.
C4_Original ==
    \A data \in FilterData :
        (/\ SameAddressCached(data)
         /\ data.model = Value(Same(data)).first.state.model
         /\ BatteriesWithinOneStep(data)
         /\ data.rssi >= rssiMin)
            => (Accepts(data) <=> SameWithin(data))

\* C4 amended: for a packet with the address of the side's cached packet the RSSI
\* distance to that cached packet is not checked (nor are model and batteries): it
\* is accepted if and only if its RSSI is at or above the floor and the other side's
\* cache is empty or holds a packet whose RSSI is within 50 of it.  With the other
\* cache empty, cached -40 and incoming -100 is accepted where the floor allows
\* -100.  A rejection mutates no cache and returns no event.
C4_SameAddress ==
    /\ [](\A data \in FilterData :
            SameAddressCached(data)
                => (Accepts(data) <=> (data.rssi >= rssiMin /\ OtherWithin(data))))
    /\ [](last.case.sameAddressFar /\ ~last.accepted
            => last.log \in {"RSSI is less than the limit", "Another side rssiDiff"})
    /\ [][RejectedStep => NoOp]_vars

\* C4 witness: with the other cache empty, a packet at -100 was accepted over the
\* side's cached packet of the same address at -40
C4_Witness ==
    /\ last.op = "OnAdvReceived" /\ last.accepted /\ last.case.sameAddressFar
    /\ \E side \in Side :
          /\ HasValue(Get(adv, side)) /\ ~HasValue(Get(adv, Another(side)))
          /\ Value(Get(adv, side)).second = now
          /\ Value(Get(adv, side)).first.rssi = -100

\* C5: a packet whose address differs from the side's cached packet, with the same
\* model, both RSSI distances within 50 and RSSI at or above the floor, is accepted
\* if and only if every battery both packets report differs by at most one 10% step
\* (stored 70 against 60 is accepted); unavailable batteries are not compared.
C5_Original ==
    \A data \in FilterData :
        (/\ OtherAddressCached(data)
         /\ data.model = Value(Same(data)).first.state.model
         /\ SameWithin(data) /\ OtherWithin(data)
         /\ data.rssi >= rssiMin)
            => (Accepts(data) <=> BatteriesWithinOneStep(data))

\* C6: a packet whose address and model both differ from the side's cached packet
\* is rejected whatever its RSSI and batteries are; the rejection returns no event
\* and leaves the caches and the canonical State as they were.
C6_ModelMismatch ==
    /\ [](\A data \in FilterData :
            (/\ OtherAddressCached(data)
             /\ data.model # Value(Same(data)).first.state.model)
                => ~Accepts(data))
    /\ [](last.log = "model"
            => last.op = "OnAdvReceived" /\ ~last.accepted /\ ~HasValue(last.event))
    /\ [][(RejectedStep /\ last'.log = "model") => NoOp]_vars

\* C6 witness: a packet was rejected for its model while a canonical State exists
C6_Witness ==
    /\ last.op = "OnAdvReceived" /\ ~last.accepted /\ last.log = "model"
    /\ HasValue(cachedState) /\ adv # EmptyAdv

\* C7: a rejected packet returns no event, makes no call and leaves both caches, the
\* canonical State, the floor and all three timers as they were; so with only
\* rejected packets arriving, a cache is still due for expiry 10 s after its last
\* accepted packet, and the lost reset 10 s after the last accepted packet at all.
C7_RejectionNoOp ==
    /\ [][RejectedStep =>
            /\ adv' = adv /\ cachedState' = cachedState /\ rssiMin' = rssiMin
            /\ lostTimer' = lostTimer /\ stateResetTimer' = stateResetTimer
            /\ now' = now
            /\ last'.event = NullOpt /\ last'.calls = <<>>]_vars
    /\ []((last.op = "OnAdvReceived" /\ ~last.accepted) =>
            /\ (HasValue(cachedState) /\ hist.quiet.left = TimerTicks
                  /\ hist.quiet.right = TimerTicks) => lostTimer = 0
            /\ \A side \in Side :
                  (HasValue(Get(adv, side)) /\ Get(hist.quiet, side) = TimerTicks)
                      => Get(stateResetTimer, side) = 0)

\* C7 witness: a packet was rejected while a canonical State exists and the lost
\* timer and a cached side's timer have run down to due
C7_Witness ==
    /\ last.op = "OnAdvReceived" /\ ~last.accepted /\ last.log # ""
    /\ HasValue(cachedState) /\ lostTimer = 0
    /\ \E side \in Side : HasValue(Get(adv, side)) /\ Get(stateResetTimer, side) = 0

\* C8: a packet with RSSI below the floor is rejected by the floor rule whatever the
\* caches hold, and a packet with RSSI equal to the floor is not rejected by that
\* rule; OnRssiMinChanged sets the floor and leaves the caches, the canonical State
\* and the timers as they were, also where a cached packet is below the new floor.
C8_RssiFloor ==
    /\ [](\A data \in FilterData :
            /\ data.rssi < rssiMin =>
                  /\ ~Accepts(data)
                  /\ RejectReason(Advertisement(data), adv, rssiMin)
                        = "RSSI is less than the limit"
            /\ data.rssi >= rssiMin =>
                  RejectReason(Advertisement(data), adv, rssiMin)
                        # "RSSI is less than the limit")
    /\ [][\A value \in RssiMinValues : OnRssiMinChanged(value) =>
            /\ rssiMin' = value
            /\ adv' = adv /\ cachedState' = cachedState
            /\ lostTimer' = lostTimer /\ stateResetTimer' = stateResetTimer
            /\ last'.event = NullOpt /\ last'.calls = <<>>]_vars

\* C8 witness: a packet with RSSI equal to the floor was accepted while the other
\* side's cache, kept over a raise of the floor, holds a packet below the floor
C8_Witness ==
    /\ last.op = "OnAdvReceived" /\ last.accepted
    /\ \E side \in Side :
          /\ HasValue(Get(adv, side)) /\ HasValue(Get(adv, Another(side)))
          /\ Value(Get(adv, side)).second = now
          /\ Value(Get(adv, side)).first.rssi = rssiMin
          /\ Value(Get(adv, Another(side))).first.rssi < rssiMin

\* a side's cache carries a usable value for the group: the cache is there and
\* the packet's model is known, or the group's battery is available
UsableModel(side) ==
    HasValue(Get(adv, side)) /\ Value(Get(adv, side)).first.state.model # "Unknown"
UsableLeft(side) ==
    HasValue(Get(adv, side)) /\ Value(Get(adv, side)).first.state.pods.left.battery.available
UsableRight(side) ==
    HasValue(Get(adv, side)) /\ Value(Get(adv, side)).first.state.pods.right.battery.available
UsableCase(side) ==
    HasValue(Get(adv, side)) /\ Value(Get(adv, side)).first.state.caseBox.battery.available
\* the cache of `side` is the one a group is to be taken from: the only usable
\* one, or the one received strictly later when both are usable
Source(side, usable, usableOther) ==
    /\ usable
    /\ usableOther => Value(Get(adv, side)).second > Value(Get(adv, Another(side))).second
\* the packet state cached for a side
Cached(side) == Value(Get(adv, side)).first.state
\* the last call accepted a packet, so the canonical State is its merge
Merged == last.op = "OnAdvReceived" /\ last.accepted /\ HasValue(cachedState)

\* C9: after an accepted packet, each of model, left pod, right pod and case of the
\* canonical State is taken from the cache received strictly later when both caches
\* carry a usable value for it, and from the only cache that carries one when
\* exactly one does; each group is chosen by its own usability alone.
C9_MergeFreshness ==
    Merged => \A side \in Side :
        /\ Source(side, UsableModel(side), UsableModel(Another(side)))
              => Value(cachedState).model = Cached(side).model
        /\ Source(side, UsableLeft(side), UsableLeft(Another(side)))
              => Value(cachedState).pods.left = Cached(side).pods.left
        /\ Source(side, UsableRight(side), UsableRight(Another(side)))
              => Value(cachedState).pods.right = Cached(side).pods.right
        /\ Source(side, UsableCase(side), UsableCase(Another(side)))
              => Value(cachedState).caseBox = Cached(side).caseBox

\* C9 witness: both caches are there, the right one later; model and right pod are
\* taken from the right cache where both carry them, the left pod from the left
\* cache, which alone carries it, and the three differ between the caches
C9_Witness ==
    /\ Merged /\ HasValue(adv.left) /\ HasValue(adv.right)
    /\ Value(adv.right).second > Value(adv.left).second
    /\ UsableModel("Left") /\ UsableModel("Right")
    /\ Cached("Left").model # Cached("Right").model
    /\ Value(cachedState).model = Cached("Right").model
    /\ UsableRight("Left") /\ UsableRight("Right")
    /\ Cached("Left").pods.right # Cached("Right").pods.right
    /\ Value(cachedState).pods.right = Cached("Right").pods.right
    /\ UsableLeft("Left") /\ ~UsableLeft("Right")
    /\ Cached("Left").pods.left # Cached("Right").pods.left
    /\ Value(cachedState).pods.left = Cached("Left").pods.left

\* C10: after an accepted packet, a group for which neither cache carries a usable
\* value is unavailable in the canonical State and holds no field of a cached
\* packet: the model is Unknown, a pod or the case is as default-constructed.
C10_Original ==
    Merged =>
        /\ (~UsableModel("Left") /\ ~UsableModel("Right"))
              => Value(cachedState).model = "Unknown"
        /\ (~UsableLeft("Left") /\ ~UsableLeft("Right"))
              => Value(cachedState).pods.left = DefaultPod
        /\ (~UsableRight("Left") /\ ~UsableRight("Right"))
              => Value(cachedState).pods.right = DefaultPod
        /\ (~UsableCase("Left") /\ ~UsableCase("Right"))
              => Value(cachedState).caseBox = DefaultCase

\* the number of times `name` is among the calls
Count(calls, name) == Cardinality({i \in DOMAIN calls : calls[i] = name})

\* a step in which a call of Manager::OnAdvertisementReceived is seen to return
\* or to go on to OnStateChanged
ReceivedStep == out'.op = "OnAdvertisementReceived" /\ out' # out

\* C11 as stated: a packet the decoder recognizes, received while no device is
\* connected, is not handed to the StateManager (caches, canonical State and timers
\* stay as they are, no call is made) and the call returns true; it returns false
\* only for a packet that is not recognized.
C11_Original ==
    /\ []((/\ out.op = "OnAdvertisementReceived"
           /\ out.log = "AirPods advertisement received, but device disconnected.")
              => out.ret = "true")
    /\ [][(~deviceConnected /\ ReceivedStep)
            => UNCHANGED <<stateMgrVars, pending>> /\ out'.calls = <<>>]_vars

\* C11 amended: while no device is connected every packet, recognized or not, is
\* kept from the StateManager (caches, canonical State and timers stay as they are,
\* no call is made) and the call returns false, for a recognized packet after
\* logging that the device is disconnected; true is returned only while a device
\* is connected, for a recognized packet after it was handed to the StateManager.
C11_GateReturnsFalse ==
    /\ []((/\ out.op = "OnAdvertisementReceived"
           /\ out.log = "AirPods advertisement received, but device disconnected.")
              => out.ret = "false" /\ out.calls = <<>> /\ ~deviceConnected)
    /\ [][(~deviceConnected /\ ReceivedStep)
            => /\ UNCHANGED <<stateMgrVars, pending, deviceConnected>>
               /\ out'.ret = "false" /\ out'.calls = <<>>]_vars
    /\ [][(ReceivedStep /\ out'.ret = "true")
            => /\ deviceConnected
               /\ HasValue(pending) \/ last'.op = "OnAdvReceived"]_vars

\* C11 witness: with a device bound but not connected, after packets had been
\* accepted earlier, a recognized packet was dropped and false returned
C11_Witness ==
    /\ out.op = "OnAdvertisementReceived" /\ out.ret = "false"
    /\ out.log = "AirPods advertisement received, but device disconnected."
    /\ boundDevice /\ ~deviceConnected /\ now >= 1
    /\ adv = EmptyAdv /\ cachedState = NullOpt

\* lid(S) of an optional State: lid opened with both pods in the case, false when absent
Lid(optState) ==
    /\ HasValue(optState)
    /\ Value(optState).caseBox.isLidOpened
    /\ Value(optState).caseBox.isBothPodsInCase
\* both pods of an optional State are in the ears, false when absent
InEars(optState) ==
    /\ HasValue(optState)
    /\ Value(optState).pods.left.isInEar
    /\ Value(optState).pods.right.isInEar
\* the UpdateEvent that OnStateChanged is about to deliver
Delivered == Value(pending).event

\* C12: for every UpdateEvent delivered, with lid of an absent previous State taken
\* as false, exactly one ShowSafely is sent when lid goes from false to true,
\* exactly one HideSafely when it goes from true to false, and neither when lid is
\* the same before and after; the State is handed to UpdateStateSafely once, first.
C12_LidTransition ==
    [][OnStateChanged =>
        LET before == Lid(Delivered.oldState)
            after  == Lid(Some(Delivered.newState))
        IN  /\ Count(out'.calls, "ShowSafely") = IF ~before /\ after THEN 1 ELSE 0
            /\ Count(out'.calls, "HideSafely") = IF before /\ ~after THEN 1 ELSE 0
            /\ Count(out'.calls, "UpdateStateSafely") = 1
            /\ out'.calls[1] = "UpdateStateSafely"]_vars

\* C12 witness: the first State after a full reset (packets had been accepted
\* before it) has the lid open with both pods in the case, and one ShowSafely was sent
C12_Witness ==
    /\ out.op = "OnAdvertisementReceived" /\ out.ret = "true"
    /\ out.calls = <<"UpdateStateSafely", "ShowSafely">>
    /\ last.op = "OnAdvReceived" /\ HasValue(last.event)
    /\ ~HasValue(Value(last.event).oldState)
    /\ Lid(Some(Value(last.event).newState))
    /\ HasValue(out.shown)
    /\ Value(out.shown).caseBox = Value(last.event).newState.caseBox
    /\ now >= 2

\* C13: Play or Pause is sent only for a delivered UpdateEvent with a previous
\* State whose "both pods in the ears" differs from the current State's, while
\* automatic ear detection is enabled: one Play when it became true, one Pause when
\* it became false; with ear detection disabled or the previous State absent there
\* is no Play and no Pause, and no other operation of the Manager sends either.
C13_BothInEar ==
    /\ [][OnStateChanged =>
            LET changed == /\ HasValue(Delivered.oldState)
                           /\ InEars(Delivered.oldState) # InEars(Some(Delivered.newState))
                after   == InEars(Some(Delivered.newState))
            IN  /\ Count(out'.calls, "Play") =
                      IF automaticEarDetection /\ changed /\ after THEN 1 ELSE 0
                /\ Count(out'.calls, "Pause") =
                      IF automaticEarDetection /\ changed /\ ~after THEN 1 ELSE 0]_vars
    /\ []((Count(out.calls, "Play") + Count(out.calls, "Pause") > 0)
            => out.op = "OnAdvertisementReceived" /\ out.ret = "true")
    /\ [][(out'.calls # <<>> /\ out' # out) => HasValue(pending)]_vars

\* C13 witness: with ear detection enabled, after a State with the left pod in the
\* ear and the right one not, a State with both in the ears was delivered with Play
C13_Witness ==
    /\ out.op = "OnAdvertisementReceived" /\ out.calls = <<"UpdateStateSafely", "Play">>
    /\ automaticEarDetection
    /\ last.op = "OnAdvReceived" /\ HasValue(last.event)
    /\ HasValue(Value(last.event).oldState)
    /\ Value(Value(last.event).oldState).pods.left.isInEar
    /\ ~Value(Value(last.event).oldState).pods.right.isInEar
    /\ InEars(Some(Value(last.event).newState))
\* C14: the timer callbacks run under the lock the Manager's operations hold, so the
\* lost timer cannot reset the StateManager and call DisconnectSafely between the
\* return of an UpdateEvent and its delivery by OnStateChanged: no State is handed
\* to UpdateStateSafely after the DisconnectSafely of the reset that cleared it.
C14_Original ==
    /\ HasValue(pending) => (~Value(pending).overtaken /\ cachedState = Some(Delivered.newState))
    /\ ~out.overtaken

\* C15: every OnBoundDeviceAddressChanged, whatever the identity and the state,
\* clears both caches and the canonical State (DisconnectSafely called if and only
\* if a canonical State existed); for the unbind identity 0 or an identity that
\* FindDevice does not resolve it ends with no device bound and the connection flag
\* false, else with the device bound and the flag telling whether it is connected.
\* With no device bound the flag stays false and every later packet is dropped.
C15_BindingChange ==
    /\ [][\A address \in AddressValues : \A optDevice \in FoundDevices :
            (/\ out'.op = "OnBoundDeviceAddressChanged"
             /\ OnBoundDeviceAddressChanged(address, optDevice))
                => /\ adv' = EmptyAdv /\ cachedState' = NullOpt
                   /\ last'.op = "Disconnect"
                   /\ last'.calls = IF HasValue(cachedState) THEN <<"DisconnectSafely">>
                                    ELSE <<>>
                   /\ (address = 0 \/ ~HasValue(optDevice))
                         => ~boundDevice' /\ ~deviceConnected'
                   /\ (address # 0 /\ HasValue(optDevice))
                         => /\ boundDevice'
                            /\ deviceConnected' <=> Value(optDevice).state = "Connected"]_vars
    /\ [](~boundDevice => (~deviceConnected /\ pending = NullOpt))
    /\ [][(~boundDevice /\ ReceivedStep)
            => UNCHANGED stateMgrVars /\ out'.ret = "false" /\ out'.calls = <<>>]_vars

\* C15 witness: a binding to an identity FindDevice does not resolve ended a
\* connection with a canonical State: nothing bound, flag false, caches cleared,
\* DisconnectSafely called
C15_Witness ==
    /\ out.op = "OnBoundDeviceAddressChanged"
    /\ out.log = "Find device by address failed."
    /\ ~boundDevice /\ ~deviceConnected
    /\ last.op = "Disconnect" /\ last.calls = <<"DisconnectSafely">>
    /\ adv = EmptyAdv /\ cachedState = NullOpt /\ now >= 1

\* C16: OnBoundDeviceConnectionStateChanged resets the StateManager if and only if
\* the connection flag was true and the new state is not Connected; on every other
\* transition the caches, the canonical State and the timers stay as they are and
\* no call is made; the flag becomes whether the new state is Connected.
C16_ConnectionChange ==
    [][\A state \in DeviceState :
        (/\ out'.op = "OnBoundDeviceConnectionStateChanged"
         /\ OnBoundDeviceConnectionStateChanged(state))
            => /\ deviceConnected' <=> state = "Connected"
               /\ UNCHANGED <<boundDevice, automaticEarDetection, deviceName, pending>>
               /\ (deviceConnected /\ state # "Connected")
                     => /\ adv' = EmptyAdv /\ cachedState' = NullOpt
                        /\ last'.op = "Disconnect"
                        /\ last'.calls = IF HasValue(cachedState)
                                         THEN <<"DisconnectSafely">> ELSE <<>>
               /\ ~(deviceConnected /\ state # "Connected")
                     => UNCHANGED stateMgrVars]_vars

\* C16 witness: the bound device went from connected to not connected while a
\* canonical State existed: the StateManager was reset with DisconnectSafely
C16_Witness ==
    /\ out.op = "OnBoundDeviceConnectionStateChanged"
    /\ out.log = "[OnBoundDeviceConnectionStateChanged] doDisconnect"
    /\ boundDevice /\ ~deviceConnected
    /\ last.op = "Disconnect" /\ last.calls = <<"DisconnectSafely">>
    /\ adv = EmptyAdv /\ cachedState = NullOpt

\* a full reset: Disconnect() or the firing of the lost timer
FullReset == Disconnect \/ DoLost

\* C17: a full reset (Disconnect or the lost timer) clears both caches and the
\* canonical State and calls DisconnectSafely if and only if a canonical State
\* existed just before it; nothing else calls it; so every DisconnectSafely is
\* preceded by an UpdateEvent returned since the full reset before it.
C17_ResetNotification ==
    /\ [][FullReset =>
            /\ adv' = EmptyAdv /\ cachedState' = NullOpt
            /\ last'.calls = <<"DisconnectSafely">> <=> HasValue(cachedState)
            /\ last'.calls = <<>> <=> ~HasValue(cachedState)
            /\ last'.calls # <<>> => HasValue(hist.emitted)
            /\ hist'.emitted = NullOpt]_vars
    /\ [](last.calls # <<>> => last.op \in {"Disconnect", "DoLost"})
    /\ [](HasValue(cachedState) <=> HasValue(hist.emitted))

\* C17 witness: the lost timer found a canonical State and called DisconnectSafely;
\* the Disconnect after it, with no packet accepted in between, made no call
C17_Witness ==
    /\ last.op = "Disconnect" /\ last.calls = <<>>
    /\ hist.lostFired = 1 /\ hist.lostNotified = 1
    /\ adv = EmptyAdv /\ cachedState = NullOpt /\ hist.emitted = NullOpt

\* C18: an UpdateEvent has no previous State if and only if no UpdateEvent was
\* returned since construction or since the last full reset; otherwise its previous
\* State is the current State of the UpdateEvent returned just before it.
C18_EventPrevious ==
    /\ [][(AcceptedStep /\ HasValue(last'.event))
            => /\ Value(last'.event).oldState = hist.emitted
               /\ hist'.emitted = Some(Value(last'.event).newState)]_vars
    /\ [][(AcceptedStep /\ ~HasValue(last'.event)) => hist'.emitted = hist.emitted]_vars
    /\ [][FullReset => hist'.emitted = NullOpt]_vars

\* C18 witness: an UpdateEvent was returned whose previous State is there and
\* differs from its current State, which is now the last one returned
C18_Witness ==
    /\ last.op = "OnAdvReceived" /\ HasValue(last.event)
    /\ HasValue(Value(last.event).oldState)
    /\ Value(last.event).oldState # Some(Value(last.event).newState)
    /\ hist.emitted = Some(Value(last.event).newState)
    /\ now >= 2

\* C19: an accepted packet of side s restarts the lost timer and the expiry timer
\* of s and leaves the other side's expiry timer running as it was, with or without
\* an UpdateEvent; so the lost timer clears a canonical State only after 10 s with
\* no accepted packet on either side, and a cache whose side was silent for 10 s
\* is due to be cleared.
C19_TimerReset ==
    /\ [][AcceptedStep =>
            \E side \in Side :
                /\ HasValue(Get(adv', side)) /\ Value(Get(adv', side)).second = now'
                /\ lostTimer' = TimerTicks
                /\ Get(stateResetTimer', side) = TimerTicks
                /\ Get(stateResetTimer', Another(side)) = Get(stateResetTimer, Another(side))]_vars
    /\ [][(HasValue(cachedState) /\ cachedState' = NullOpt /\ last'.op = "DoLost")
            => hist.quiet.left = TimerTicks /\ hist.quiet.right = TimerTicks]_vars
    /\ [](\A side \in Side :
            /\ (HasValue(Get(adv, side)) /\ Get(hist.quiet, side) = TimerTicks)
                  => Get(stateResetTimer, side) = 0
            /\ Get(hist.quiet, side) < TimerTicks
                  => (lostTimer > 0 /\ Get(stateResetTimer, side) > 0))

\* C19 witness: a packet was accepted without an UpdateEvent; the lost timer and
\* its side's timer are restarted, the other side's cache is there and its timer
\* has kept running
C19_Witness ==
    /\ last.op = "OnAdvReceived" /\ last.accepted /\ ~HasValue(last.event)
    /\ lostTimer = TimerTicks
    /\ \E side \in Side :
          /\ HasValue(Get(adv, side)) /\ Value(Get(adv, side)).second = now
          /\ Get(stateResetTimer, side) = TimerTicks
          /\ HasValue(Get(adv, Another(side)))
          /\ Get(stateResetTimer, Another(side)) < TimerTicks

\* C20: the firing of a side's expiry timer clears that side's cache only: the other
\* side's cache and the canonical State stay as they are, no call is made and no
\* event returned; with that side's cache already empty nothing changes at all.
C20_ExpiryFrame ==
    [][\A side \in Side : DoStateReset(side) =>
        /\ Get(adv', side) = NullOpt
        /\ Get(adv', Another(side)) = Get(adv, Another(side))
        /\ cachedState' = cachedState /\ rssiMin' = rssiMin /\ lostTimer' = lostTimer
        /\ last'.calls = <<>> /\ last'.event = NullOpt
        /\ ~HasValue(Get(adv, side)) => (adv' = adv /\ last'.log = "")
        /\ HasValue(Get(adv, side)) => last'.log = DoStateResetLog(side)]_vars

\* C20 witness: an expiry timer fired on an empty cache while the other side's
\* cache and the canonical State are there, and left them there
C20_Witness ==
    /\ last.op = "DoStateReset" /\ last.log = ""
    /\ HasValue(cachedState)
    /\ \E side \in Side :
          /\ HasValue(Get(adv, side)) /\ ~HasValue(Get(adv, Another(side)))
          /\ Get(stateResetTimer, Another(side)) = TimerTicks
          /\ Get(stateResetTimer, side) < TimerTicks

\* C21: whenever both side caches hold a packet, the RSSI values of the two cached
\* packets differ by at most 50: a packet is accepted onto a side only with the
\* other side's cache empty or holding a packet whose RSSI is within 50 of it, and
\* accepting it leaves the other side's cache as it was.
C21_CrossSideRssi ==
    /\ []((HasValue(adv.left) /\ HasValue(adv.right))
            => Abs(GetRssi(Value(adv.left).first) - GetRssi(Value(adv.right).first))
                  <= RssiDiffMax)
    /\ [][AcceptedStep =>
            \E side \in Side :
                /\ HasValue(Get(adv', side)) /\ Value(Get(adv', side)).second = now'
                /\ Get(adv', Another(side)) = Get(adv, Another(side))
                /\ HasValue(Get(adv, Another(side)))
                      => Abs(GetRssi(Value(Get(adv', side)).first)
                             - GetRssi(Value(Get(adv, Another(side))).first))
                            <= RssiDiffMax]_vars

\* C21 witness: both caches hold packets of different RSSI, 10 apart, and the
\* packet just received, more than 50 away from the other side's, was rejected
C21_Witness ==
    /\ HasValue(adv.left) /\ HasValue(adv.right)
    /\ GetRssi(Value(adv.left).first) # GetRssi(Value(adv.right).first)
    /\ last.op = "OnAdvReceived" /\ ~last.accepted
    /\ last.log = "Another side rssiDiff"

\* C22 as stated: in every reachable state, under every order of the timer
\* callbacks, a canonical State that is present has at least one side cache that
\* is not empty.
C22_Original ==
    HasValue(cachedState) => adv # EmptyAdv

\* C22 amended: a canonical State that is present has at least one side cache that
\* is not empty, or no packet was accepted on either side for 10 s and the lost
\* timer is due.  The last accepted packet restarted the lost timer and its side's
\* expiry timer together, they fall due together, and the expiry callback may run
\* before DoLost: it empties the last cache and leaves the canonical State, which
\* DoLost then clears.
C22_CanonicalLiveOrLostDue ==
    /\ []((HasValue(cachedState) /\ adv = EmptyAdv)
            => /\ lostTimer = 0
               /\ hist.quiet.left = TimerTicks /\ hist.quiet.right = TimerTicks)
    /\ []((HasValue(cachedState) /\ lostTimer > 0) => adv # EmptyAdv)
    /\ [][(HasValue(cachedState) /\ adv = EmptyAdv /\ HasValue(cachedState'))
            => (adv' # EmptyAdv \/ lostTimer' = 0)]_vars
    /\ [][(adv # EmptyAdv /\ adv' = EmptyAdv /\ HasValue(cachedState'))
            => (\E side \in Side : DoStateReset(side)) /\ lostTimer = 0]_vars

\* C22 witness: the expiry callback of the last cache ran before DoLost: the
\* canonical State is present, both caches are empty and the lost timer is due
C22_Witness ==
    /\ last.op = "DoStateReset" /\ last.log # ""
    /\ HasValue(cachedState) /\ adv = EmptyAdv
    /\ lostTimer = 0

\* C23: whenever the connection flag is false and no Manager entry point is
\* executing, both side caches and the canonical State are empty: the engine takes
\* a packet only while the flag is true, and every step that takes the flag from
\* true to false, a binding change or a connection loss, resets the engine in the
\* same step.
C23_DisconnectedEmpty ==
    /\ []((pending = NullOpt /\ ~deviceConnected)
            => (adv = EmptyAdv /\ cachedState = NullOpt))
    /\ [][(last' # last /\ last'.op = "OnAdvReceived") => deviceConnected]_vars
    /\ [][(deviceConnected /\ ~deviceConnected')
            => /\ out'.op \in {"OnBoundDeviceAddressChanged",
                                "OnBoundDeviceConnectionStateChanged"}
               /\ last'.op = "Disconnect"
               /\ adv' = EmptyAdv /\ cachedState' = NullOpt]_vars

\* C23 witness: the bound device lost its connection while the engine held a
\* canonical State; the flag is false, the engine was reset and is empty
C23_Witness ==
    /\ out.op = "OnBoundDeviceConnectionStateChanged"
    /\ out.log = "[OnBoundDeviceConnectionStateChanged] doDisconnect"
    /\ boundDevice /\ ~deviceConnected /\ pending = NullOpt
    /\ last.op = "Disconnect" /\ last.calls # <<>>
    /\ adv = EmptyAdv /\ cachedState = NullOpt

====
